---- MODULE Spec2Model ----
(***************************************************************************)
(* ClipSynth: the upload/import state machine of UploadPage, the importers *)
(* of videoService (mock and backend-backed revisions) that drive it, and  *)
(* the backend endpoints the backend-backed importers call.                *)
(*                                                                         *)
(* Strings the code inspects (file names, URLs, titles) are sequences of   *)
(* one-character strings, so that toLowerCase() and includes() are         *)
(* computed.  Messages shown to the user are TLA+ strings.                 *)
(* A nullable value (string | null, VideoDetails | null) is a sequence of  *)
(* length 0 (null) or 1.                                                   *)
(***************************************************************************)
EXTENDS Integers, Sequences, FiniteSets, TLC

VARIABLES
    status,          \* useState<UploadStatus>
    progress,        \* useState(0)
    error,           \* useState<string | null>
    videoDetails,    \* useState<VideoDetails | null>
    youtubeUrl,      \* useState('')
    mode,            \* useState<UploadMode>('file')
    service,         \* which revision of services/videoService the page imports
    imports,         \* one record per importer call made in this session
    event,           \* the handler or callback of the import flow that ran last, with its input
    toProcessing,    \* UPLOADING -> PROCESSING transitions since the last start
    hundredSeen,     \* a value of 100 was delivered while UPLOADING since the last start
    editor,          \* EditorView: its props and useState values, and its pending request
    server,          \* the backend: its clock, its requests and its uploads directory
    gen              \* generateMockTranscript: its argument, its locals and its position

vars == <<status, progress, error, videoDetails, youtubeUrl, mode, service,
          imports, event, toProcessing, hundredSeen, editor, server, gen>>

page == <<status, progress, error, videoDetails, youtubeUrl>>

----------------------------------------------------------------------------
(* Bounds of the model *)

\* importer calls per session
MaxImports == 2

\* segments of a transcript
MaxSegments == 3

\* requests the backend receives
MaxRequests == 2

\* milliseconds the backend's clock can advance
MaxTime == 1

\* the longest duration generateMockTranscript is called with, in tenths of a second
MaxDuration == 3000

----------------------------------------------------------------------------
(* Values *)

Null == <<>>
Some(x) == <<x>>

UploadStatus == {"IDLE", "UPLOADING", "PROCESSING", "SUCCESS", "ERROR"}

\* String.prototype.toLowerCase over the characters the model uses
LowerChar(c) ==
    CASE c = "E" -> "e"
      [] c = "R" -> "r"
      [] c = "O" -> "o"
      [] c = "S" -> "s"
      [] c = "P" -> "p"
      [] c = "C" -> "c"
      [] c = "I" -> "i"
      [] c = "A" -> "a"
      [] c = "L" -> "l"
      [] c = "G" -> "g"
      [] OTHER -> c

\* a variant of toLowerCase that leaves every character as it is
ToLowerCaseKept(s) == s

ToLowerCase(s) == [k \in 1..Len(s) |-> LowerChar(s[k])]

\* String.prototype.includes
Includes(s, sub) ==
    \E k \in 0..(Len(s) - Len(sub)) : SubSeq(s, k + 1, k + Len(sub)) = sub

ErrorWord == <<"e", "r", "r", "o", "r">>

\* The characters of the messages the importers, the page and the backend show
Chars(m) ==
    CASE m = "Upload failed due to a simulated server error." ->
          <<"U", "p", "l", "o", "a", "d", " ", "f", "a", "i", "l", "e", "d",
            " ", "d", "u", "e", " ", "t", "o", " ", "a", " ", "s", "i", "m",
            "u", "l", "a", "t", "e", "d", " ", "s", "e", "r", "v", "e", "r",
            " ", "e", "r", "r", "o", "r", ".">>
      [] m = "Import failed. Invalid YouTube URL or video is private." ->
          <<"I", "m", "p", "o", "r", "t", " ", "f", "a", "i", "l", "e", "d",
            ".", " ", "I", "n", "v", "a", "l", "i", "d", " ", "Y", "o", "u",
            "T", "u", "b", "e", " ", "U", "R", "L", " ", "o", "r", " ", "v",
            "i", "d", "e", "o", " ", "i", "s", " ", "p", "r", "i", "v", "a",
            "t", "e", ".">>
      [] m = "Failed to upload file." ->
          <<"F", "a", "i", "l", "e", "d", " ", "t", "o", " ", "u", "p", "l",
            "o", "a", "d", " ", "f", "i", "l", "e", ".">>
      [] m = "Failed to import from YouTube." ->
          <<"F", "a", "i", "l", "e", "d", " ", "t", "o", " ", "i", "m", "p",
            "o", "r", "t", " ", "f", "r", "o", "m", " ", "Y", "o", "u", "T",
            "u", "b", "e", ".">>
      [] m = "No video file provided." ->
          <<"N", "o", " ", "v", "i", "d", "e", "o", " ", "f", "i", "l", "e",
            " ", "p", "r", "o", "v", "i", "d", "e", "d", ".">>
      [] m = "Failed to process the uploaded file." ->
          <<"F", "a", "i", "l", "e", "d", " ", "t", "o", " ", "p", "r", "o",
            "c", "e", "s", "s", " ", "t", "h", "e", " ", "u", "p", "l", "o",
            "a", "d", "e", "d", " ", "f", "i", "l", "e", ".">>
      [] m = "Invalid or missing YouTube URL." ->
          <<"I", "n", "v", "a", "l", "i", "d", " ", "o", "r", " ", "m", "i",
            "s", "s", "i", "n", "g", " ", "Y", "o", "u", "T", "u", "b", "e",
            " ", "U", "R", "L", ".">>
      [] m = "Failed to process YouTube URL. The video might be private or unavailable." ->
          <<"F", "a", "i", "l", "e", "d", " ", "t", "o", " ", "p", "r", "o",
            "c", "e", "s", "s", " ", "Y", "o", "u", "T", "u", "b", "e", " ",
            "U", "R", "L", ".", " ", "T", "h", "e", " ", "v", "i", "d", "e",
            "o", " ", "m", "i", "g", "h", "t", " ", "b", "e", " ", "p", "r",
            "i", "v", "a", "t", "e", " ", "o", "r", " ", "u", "n", "a", "v",
            "a", "i", "l", "a", "b", "l", "e", ".">>
      [] m = "An unknown error occurred." ->
          <<"A", "n", " ", "u", "n", "k", "n", "o", "w", "n", " ", "e", "r",
            "r", "o", "r", " ", "o", "c", "c", "u", "r", "r", "e", "d",
            ".">>
      [] OTHER -> <<>>

\* File objects a user can select; NoFile is the null/undefined argument
NoFile == [present |-> FALSE, name |-> <<>>]
FileClip == [present |-> TRUE, name |-> <<"c", "l", "i", "p">>]
FileError == [present |-> TRUE, name |-> <<"v", "-", "E", "r", "r", "O", "R">>]
Files == {FileClip, FileError}
FileInputs == Files \cup {NoFile}

\* Texts a user can type into the URL field
UrlEmpty == <<>>
UrlGood == <<"y", "t", "/", "a">>
UrlError == <<"y", "t", "/", "E", "R", "R", "O", "R">>
UrlNotYouTube == <<"x", "/", "a">>
UrlInputs == {UrlEmpty, UrlGood, UrlError, UrlNotYouTube}

\* ytdl.validateURL: the library accepts YouTube watch URLs
ValidateURL(u) == Len(u) >= 3 /\ SubSeq(u, 1, 3) = <<"y", "t", "/">>

\* the Editor while the page does not show it
NoEditor ==
    [transcript |-> <<>>, finder |-> "none", isFinding |-> FALSE, highlights |-> {},
     pc |-> "unmounted", outstanding |-> 0,
     last |-> [op |-> "none", ids |-> {}, failed |-> FALSE, dropped |-> FALSE]]

\* generateMockTranscript while it is not called
NoGen ==
    [duration |-> 0, cap |-> 0, transcript |-> <<>>, currentTime |-> 0, id |-> 0,
     pc |-> "idle"]

\* the backend while it is not looked at
NoServer == [now |-> 0, requests |-> <<>>, disk |-> [f \in {} |-> 0]]

\* What a rejected promise carries: an Error with its message, or another value
ErrorOf(m) == [isError |-> TRUE, message |-> m]
NonError == [isError |-> FALSE, message |-> ""]

----------------------------------------------------------------------------
(* Backend endpoints, as far as the importers see them *)

HttpError(code, msg) == [kind |-> "http", code |-> code, error |-> msg, details |-> Null]
HttpOk(d) == [kind |-> "http", code |-> 200, error |-> "", details |-> Some(d)]
\* fetch() itself rejects (TypeError) when no response is obtained
NetworkFailure == [kind |-> "network", code |-> 0, error |-> "Failed to fetch", details |-> Null]

\* Response.ok
ResponseOk(resp) == resp.code >= 200 /\ resp.code <= 299

\* POST /api/videos/upload-file; procFails: an exception inside the try block
UploadFileHandler(file, procFails) ==
    IF ~file.present
    THEN HttpError(400, "No video file provided.")
    ELSE IF procFails
         THEN HttpError(500, "Failed to process the uploaded file.")
         ELSE HttpOk([name |-> file.name, duration |-> 245,
                      source |-> "upload", hasVideoUrl |-> TRUE])

\* What ytdl.getInfo can do for a valid URL: throw, or return the metadata
YtInfoFails == [fails |-> TRUE, title |-> <<>>, lengthSeconds |-> 0]
YtInfoFound == [fails |-> FALSE, title |-> <<"t", "a", "l", "k">>, lengthSeconds |-> 320]
YtInfoOutcomes == {YtInfoFails, YtInfoFound}

\* POST /api/videos/import-youtube
ImportYoutubeHandler(url, info) ==
    IF url = <<>> \/ ~ValidateURL(url)
    THEN HttpError(400, "Invalid or missing YouTube URL.")
    ELSE IF info.fails
         THEN HttpError(500, "Failed to process YouTube URL. The video might be private or unavailable.")
         ELSE HttpOk([name |-> info.title, duration |-> info.lengthSeconds,
                      source |-> "youtube", hasVideoUrl |-> FALSE])

\* Everything a fetch of upload-file can end with
UploadFetchOutcomes(file) ==
    {NetworkFailure} \cup {UploadFileHandler(file, pf) : pf \in BOOLEAN}

\* Everything a fetch of import-youtube can end with
YoutubeFetchOutcomes(url) ==
    {NetworkFailure} \cup {ImportYoutubeHandler(url, info) : info \in YtInfoOutcomes}

----------------------------------------------------------------------------
(* services/videoService: the importers *)

Services == {"mock", "hybrid", "backend"}

\* uploadVideoFile of the revision in use
FileImpl(svc) ==
    CASE svc = "mock" -> "mock"
      [] svc = "hybrid" -> "mock"
      [] svc = "backend" -> "backend"
      [] OTHER -> "any"

\* importFromYouTube of the revision in use
UrlImpl(svc) ==
    CASE svc = "mock" -> "mock"
      [] svc = "hybrid" -> "backend"
      [] svc = "backend" -> "backend"
      [] OTHER -> "any"

\* Math.floor(Math.random() * 15)
RandomFloor15 == 0..14

\* progress += Math.floor(Math.random() * 15) + 5
MockIncrements == {r + 5 : r \in RandomFloor15}

\* progress += Math.floor(Math.random() * 15) + 10
RealIncrements == {r + 10 : r \in RandomFloor15}

\* a variant that reports the raw counter: onProgress(progress)
MinLeft(a, b) == a

\* Math.min
Min(a, b) == IF a < b THEN a ELSE b

\* The first value importFromYouTube passes to onProgress, before its first await
YtFirstProgress == 10
YtSecondProgress == 50
YtLastProgress == 100

\* The state of one importer call: its position, its local progress counter,
\* the last value it passed to onProgress (-1: none yet), whether all values
\* passed so far were within [0,100] and non-decreasing, and the response held.
NewImport(kind, impl, file, url, pc) ==
    [kind |-> kind, impl |-> impl, file |-> file, url |-> url, pc |-> pc,
     progress |-> 0, last |-> -1, ordered |-> TRUE, response |-> Null]

FirstPcFile(impl) ==
    CASE impl = "mock" -> "mockLoop"
      [] impl = "backend" -> "realLoop"
      [] OTHER -> "anyRunning"

FirstPcUrl(impl) ==
    CASE impl = "mock" -> "ytWait1"
      [] impl = "backend" -> "ytDelay"
      [] OTHER -> "anyRunning"

Settled(rec) == rec.pc \in {"resolved", "rejected"}

\* the record of an importer call whose promise has settled: its locals are gone
Finished(rec, pc) ==
    [rec EXCEPT !.pc = pc, !.progress = 0, !.response = Null,
                !.file = NoFile, !.url = <<>>]
InFlight == {i \in 1..Len(imports) : ~Settled(imports[i])}

\* the record of an importer call after it passed p to onProgress
Reported(rec, p) ==
    [rec EXCEPT !.last = p,
                !.ordered = rec.ordered /\ p >= rec.last /\ p >= 0 /\ p <= 100]

----------------------------------------------------------------------------
(* UploadPage: the handlers *)

\* The record kept of the handler or callback that ran last: its name, the
\* status it ran in, and its input (a progress value, a file, a URL, the
\* record an importer returned or the value it threw).
Ev(op) ==
    [op |-> op, from |-> status, p |-> -1, file |-> NoFile, url |-> <<>>,
     details |-> Null, rejection |-> Null]

\* a variant of handleReset without setProgress(0)
HandleResetKeepsProgress ==
    [status |-> "IDLE", progress |-> progress, error |-> Null, videoDetails |-> Null,
     youtubeUrl |-> <<>>]

\* a variant of handleReset without setVideoDetails(null)
HandleResetKeepsResult ==
    [status |-> "IDLE", progress |-> 0, error |-> Null, videoDetails |-> videoDetails,
     youtubeUrl |-> <<>>]

\* handleReset: the values it sets
HandleReset ==
    [status |-> "IDLE", progress |-> 0, error |-> Null, videoDetails |-> Null,
     youtubeUrl |-> <<>>]

\* a variant of the callback: if (p > 100)
OnProgressStatusStrict(st, p) == IF p > 100 THEN "PROCESSING" ELSE st

\* the onProgress callback: if (p >= 100) setStatus(PROCESSING)
OnProgressStatus(st, p) == IF p >= 100 THEN "PROCESSING" ELSE st

\* a variant of the catch block that always shows the generic text
CatchMessageGeneric(r) == "An unknown error occurred."

\* catch (err): err instanceof Error ? err.message : 'An unknown error occurred.'
CatchMessage(r) == IF r.isError THEN r.message ELSE "An unknown error occurred."

\* a variant of renderContent that keeps the uploaders in the result views
StartOfferedWhenDone == status \in {"IDLE", "SUCCESS", "ERROR"}

\* a variant of renderContent that keeps the uploaders beside the progress view
StartOfferedWhileBusy == status \in {"IDLE", "UPLOADING", "PROCESSING"}

\* renderContent: the tabs and the two uploaders are rendered in the IDLE case only
StartOffered == status = "IDLE"

\* renderContent: the reset buttons belong to SuccessView and ErrorView
ResetOffered == status \in {"SUCCESS", "ERROR"}

\* a variant of handleFileUpload without its first line
FileNeverRefused(f) == FALSE

\* if (!file) return
FileRefused(f) == ~f.present

\* if (!youtubeUrl) return
UrlRefused(u) == u = <<>>

\* TabButton onClick: setMode
SetMode(m) ==
    /\ StartOffered
    /\ m # mode
    /\ mode' = m
    /\ UNCHANGED <<page, service, editor, server, gen, imports, event, toProcessing, hundredSeen>>

\* UrlUploader input onChange: setUrl
SetUrl(u) ==
    /\ StartOffered
    /\ mode = "url"
    /\ u # youtubeUrl
    /\ youtubeUrl' = u
    /\ UNCHANGED <<status, progress, error, videoDetails, mode, service, editor, server, gen, imports,
                   event, toProcessing, hundredSeen>>

\* a call of handleReset by itself; the event keeps the status it was called in
CallHandleReset ==
    /\ status' = HandleReset.status
    /\ progress' = HandleReset.progress
    /\ error' = HandleReset.error
    /\ videoDetails' = HandleReset.videoDetails
    /\ youtubeUrl' = HandleReset.youtubeUrl
    /\ event' = Ev("reset")
    /\ UNCHANGED <<mode, service, editor, server, gen, imports, toProcessing, hundredSeen>>

\* SuccessView / ErrorView onReset: handleReset
Reset ==
    /\ ResetOffered
    /\ CallHandleReset

\* handleFileChange / handleDrop -> handleFileUpload(file), up to the importer's
\* first await (uploadVideoFile awaits before its first onProgress)
StartFile(f) ==
    /\ StartOffered
    /\ mode = "file"
    /\ IF FileRefused(f)
       THEN /\ event' = [Ev("startFile") EXCEPT !.file = f]
            /\ UNCHANGED <<page, mode, service, editor, server, gen, imports, toProcessing, hundredSeen>>
       ELSE /\ Len(imports) < MaxImports
            /\ status' = "UPLOADING"
            /\ progress' = HandleReset.progress
            /\ error' = HandleReset.error
            /\ videoDetails' = HandleReset.videoDetails
            /\ youtubeUrl' = HandleReset.youtubeUrl
            /\ imports' = Append(imports,
                   NewImport("file", FileImpl(service), f, <<>>,
                             FirstPcFile(FileImpl(service))))
            /\ event' = [Ev("startFile") EXCEPT !.file = f]
            /\ toProcessing' = 0
            /\ hundredSeen' = FALSE
            /\ UNCHANGED <<mode, service, editor, server, gen>>

\* the values importFromYouTube passes to onProgress before its first await
UrlSyncProgress(impl) == IF impl \in {"mock", "backend"} THEN <<YtFirstProgress>> ELSE <<>>

\* UrlUploader onSubmit -> handleUrlImport, up to the importer's first await
StartUrl ==
    /\ StartOffered
    /\ mode = "url"
    /\ IF UrlRefused(youtubeUrl)
       THEN /\ event' = [Ev("startUrl") EXCEPT !.url = youtubeUrl]
            /\ UNCHANGED <<page, mode, service, editor, server, gen, imports, toProcessing, hundredSeen>>
       ELSE LET impl == UrlImpl(service)
                sync == UrlSyncProgress(impl)
                rec0 == NewImport("url", impl, NoFile, youtubeUrl, FirstPcUrl(impl))
                rec1 == IF sync = <<>> THEN rec0 ELSE Reported(rec0, sync[1])
                st1 == IF sync = <<>> THEN "UPLOADING"
                       ELSE OnProgressStatus("UPLOADING", sync[1])
            IN  /\ Len(imports) < MaxImports
                /\ status' = st1
                /\ progress' = (IF sync = <<>> THEN HandleReset.progress ELSE sync[1])
                /\ error' = HandleReset.error
                /\ videoDetails' = HandleReset.videoDetails
                /\ youtubeUrl' = HandleReset.youtubeUrl
                /\ imports' = Append(imports, rec1)
                /\ event' = [Ev("startUrl") EXCEPT !.url = youtubeUrl]
                /\ toProcessing' = (IF st1 = "PROCESSING" THEN 1 ELSE 0)
                /\ hundredSeen' = (sync # <<>> /\ sync[1] = 100)
                /\ UNCHANGED <<mode, service, editor, server, gen>>

\* importer call i passes p to onProgress and moves to position pc (rec: its
\* record before the call): setProgress(p); if (p >= 100) setStatus(PROCESSING)
Deliver(i, rec, p, pc) ==
    /\ progress' = p
    /\ status' = OnProgressStatus(status, p)
    /\ imports' = [imports EXCEPT ![i] = [Reported(rec, p) EXCEPT !.pc = pc]]
    /\ event' = [Ev("progress") EXCEPT !.p = p]
    /\ toProcessing' = toProcessing +
           (IF status = "UPLOADING" /\ status' = "PROCESSING" THEN 1 ELSE 0)
    /\ hundredSeen' = (hundredSeen \/ (status = "UPLOADING" /\ p = 100))
    /\ UNCHANGED <<error, videoDetails, youtubeUrl, mode, service, editor, server, gen>>

\* a variant of the handlers without setVideoDetails(result)
SetVideoDetailsSkipped(result) == videoDetails

\* setVideoDetails(result)
SetVideoDetails(result) == Some(result)

\* importer call i returns d: setVideoDetails(result); setStatus(SUCCESS)
Resolve(i, d) ==
    /\ videoDetails' = SetVideoDetails(d)
    /\ status' = "SUCCESS"
    /\ imports' = [imports EXCEPT ![i] = Finished(imports[i], "resolved")]
    /\ event' = [Ev("resolved") EXCEPT !.details = Some(d)]
    /\ UNCHANGED <<progress, error, youtubeUrl, mode, service, editor, server, gen, toProcessing, hundredSeen>>

\* importer call i throws r: setError(...); setStatus(ERROR)
Reject(i, r) ==
    /\ error' = Some(CatchMessage(r))
    /\ status' = "ERROR"
    /\ imports' = [imports EXCEPT ![i] = Finished(imports[i], "rejected")]
    /\ event' = [Ev("rejected") EXCEPT !.rejection = Some(r)]
    /\ UNCHANGED <<progress, videoDetails, youtubeUrl, mode, service, editor, server, gen, toProcessing,
                   hundredSeen>>

----------------------------------------------------------------------------
(* The importers' steps, each from one await to the next *)

\* What the mock uploadVideoFile returns
MockUploadDetails(file) ==
    [name |-> file.name, duration |-> 185, source |-> "none", hasVideoUrl |-> FALSE]

\* What the mock importFromYouTube returns
MockYoutubeDetails ==
    [name |-> <<"I", "m", "p", "o", "r", "t", "e", "d">>, duration |-> 320,
     source |-> "none", hasVideoUrl |-> FALSE]

\* where uploadVideoFile goes when its loop test fails
AfterLoop(impl) == IF impl = "mock" THEN "mockProcessing" ELSE "realFetch"

\* a variant of the loop test that stops the loop early
LoopContinuesShort(p) == p < 90

\* while (progress < 100)
LoopContinues(p) == p < 100

\* one round of the upload loop: progress += inc; onProgress(Math.min(progress, 100))
UploadTick(i, inc) ==
    LET rec == imports[i]
        next == rec.progress + inc
        pc == IF LoopContinues(next) THEN rec.pc ELSE AfterLoop(rec.impl)
    IN  /\ LoopContinues(rec.progress)
        /\ Deliver(i, [rec EXCEPT !.progress = next], Min(next, 100), pc)

\* mock uploadVideoFile, while (progress < 100) { await simulateDelay; ... }
MockUploadTick(i) ==
    /\ i <= Len(imports)
    /\ imports[i].pc = "mockLoop"
    /\ \E inc \in MockIncrements : UploadTick(i, inc)

\* mock uploadVideoFile after await simulateDelay(2000)
MockUploadFinish(i) ==
    /\ i <= Len(imports)
    /\ imports[i].pc = "mockProcessing"
    /\ IF Includes(ToLowerCase(imports[i].file.name), ErrorWord)
       THEN Reject(i, ErrorOf("Upload failed due to a simulated server error."))
       ELSE Resolve(i, MockUploadDetails(imports[i].file))

\* backend-backed uploadVideoFile, the loop; fetch is called when the loop ends
RealUploadTick(i) ==
    /\ i <= Len(imports)
    /\ imports[i].pc = "realLoop"
    /\ \E inc \in RealIncrements : UploadTick(i, inc)

\* errorData.error || fallback
ErrorOr(msg, fallback) == IF msg = "" THEN fallback ELSE msg

\* an await that ends with no call of a handler of the page
Await(i, rec, pc) ==
    /\ imports' = [imports EXCEPT ![i] = [rec EXCEPT !.pc = pc]]
    /\ event' = Ev("await")
    /\ UNCHANGED <<page, mode, service, editor, server, gen, toProcessing, hundredSeen>>

\* backend-backed uploadVideoFile: the fetch settles
RealUploadResponse(i) ==
    /\ i <= Len(imports)
    /\ imports[i].pc = "realFetch"
    /\ \E resp \in UploadFetchOutcomes(imports[i].file) :
          IF resp.kind = "network"
          THEN Reject(i, ErrorOf(resp.error))
          ELSE Await(i, [imports[i] EXCEPT !.response = Some(resp)], "realBody")

\* backend-backed uploadVideoFile after await response.json()
RealUploadBody(i) ==
    /\ i <= Len(imports)
    /\ imports[i].pc = "realBody"
    /\ LET resp == imports[i].response[1]
       IN  IF ~ResponseOk(resp)
           THEN Reject(i, ErrorOf(ErrorOr(resp.error, "Failed to upload file.")))
           ELSE Resolve(i, resp.details[1])

\* mock importFromYouTube after await simulateDelay(1000): onProgress(50)
MockYtHalf(i) ==
    /\ i <= Len(imports)
    /\ imports[i].pc = "ytWait1"
    /\ Deliver(i, imports[i], YtSecondProgress, "ytWait2")

\* mock importFromYouTube after await simulateDelay(1500): onProgress(100)
MockYtFull(i) ==
    /\ i <= Len(imports)
    /\ imports[i].pc = "ytWait2"
    /\ Deliver(i, imports[i], YtLastProgress, "ytProcessing")

\* mock importFromYouTube after await simulateDelay(2500)
MockYtFinish(i) ==
    /\ i <= Len(imports)
    /\ imports[i].pc = "ytProcessing"
    /\ IF Includes(ToLowerCase(imports[i].url), ErrorWord)
       THEN Reject(i, ErrorOf("Import failed. Invalid YouTube URL or video is private."))
       ELSE Resolve(i, MockYoutubeDetails)

\* backend-backed importFromYouTube after await simulateDelay(200): fetch is called
RealYtSend(i) ==
    /\ i <= Len(imports)
    /\ imports[i].pc = "ytDelay"
    /\ Await(i, imports[i], "ytFetch")

\* backend-backed importFromYouTube: the fetch settles; onProgress(50) on a response
RealYtResponse(i) ==
    /\ i <= Len(imports)
    /\ imports[i].pc = "ytFetch"
    /\ \E resp \in YoutubeFetchOutcomes(imports[i].url) :
          IF resp.kind = "network"
          THEN Reject(i, ErrorOf(resp.error))
          ELSE Deliver(i, [imports[i] EXCEPT !.response = Some(resp)],
                       YtSecondProgress, "ytBody")

\* backend-backed importFromYouTube after await response.json()
RealYtBody(i) ==
    /\ i <= Len(imports)
    /\ imports[i].pc = "ytBody"
    /\ LET resp == imports[i].response[1]
       IN  IF ~ResponseOk(resp)
           THEN Reject(i, ErrorOf(ErrorOr(resp.error, "Failed to import from YouTube.")))
           ELSE Deliver(i, imports[i], YtLastProgress, "ytShow100")

\* backend-backed importFromYouTube after await simulateDelay(500): return videoDetails
RealYtFinish(i) ==
    /\ i <= Len(imports)
    /\ imports[i].pc = "ytShow100"
    /\ Resolve(i, imports[i].response[1].details[1])

ImportIds == 1..MaxImports

\* the steps the event loop runs by itself: timers and continuations
TimerStep ==
    \/ \E i \in ImportIds : MockUploadTick(i)
    \/ \E i \in ImportIds : MockUploadFinish(i)
    \/ \E i \in ImportIds : RealUploadTick(i)
    \/ \E i \in ImportIds : MockYtHalf(i)
    \/ \E i \in ImportIds : MockYtFull(i)
    \/ \E i \in ImportIds : MockYtFinish(i)
    \/ \E i \in ImportIds : RealUploadBody(i)
    \/ \E i \in ImportIds : RealYtSend(i)
    \/ \E i \in ImportIds : RealYtBody(i)
    \/ \E i \in ImportIds : RealYtFinish(i)

\* the steps that need the network to answer
NetworkStep ==
    \/ \E i \in ImportIds : RealUploadResponse(i)
    \/ \E i \in ImportIds : RealYtResponse(i)

\* what the user can do
UserStep ==
    \/ \E m \in {"file", "url"} : SetMode(m)
    \/ \E u \in UrlInputs : SetUrl(u)
    \/ \E f \in FileInputs : StartFile(f)
    \/ StartUrl
    \/ Reset

----------------------------------------------------------------------------
(* The page with the importers of the repository *)

InitPage ==
    /\ status = "IDLE"
    /\ progress = 0
    /\ error = Null
    /\ videoDetails = Null
    /\ youtubeUrl = <<>>
    /\ mode = "file"
    /\ imports = <<>>
    /\ event = Ev("init")
    /\ toProcessing = 0
    /\ hundredSeen = FALSE
    /\ editor = NoEditor
    /\ server = NoServer
    /\ gen = NoGen

Init ==
    /\ InitPage
    /\ service \in Services

Next == UserStep \/ TimerStep \/ NetworkStep

Spec == Init /\ [][Next]_vars

FairSpec == Spec /\ WF_vars(TimerStep)

----------------------------------------------------------------------------
(* The page with an importer of which only the signature is known: it may  *)
(* pass any values to onProgress, in any order and any number of times,    *)
(* and then resolve with any record or reject with any value.              *)

ProgressInputs == {0, 30, 99, 100}
AnyDetails == {MockUploadDetails(FileClip), MockYoutubeDetails}
AnyRejections == {ErrorOf("boom"), ErrorOf(""), NonError}

AnyProgress(i) ==
    /\ i <= Len(imports)
    /\ imports[i].pc = "anyRunning"
    /\ \E p \in ProgressInputs : Deliver(i, imports[i], p, "anyRunning")

AnyResolve(i) ==
    /\ i <= Len(imports)
    /\ imports[i].pc = "anyRunning"
    /\ \E d \in AnyDetails : Resolve(i, d)

AnyReject(i) ==
    /\ i <= Len(imports)
    /\ imports[i].pc = "anyRunning"
    /\ \E r \in AnyRejections : Reject(i, r)

InitAny ==
    /\ InitPage
    /\ service = "any"

NextAny ==
    \/ UserStep
    \/ \E i \in ImportIds : AnyProgress(i)
    \/ \E i \in ImportIds : AnyResolve(i)
    \/ \E i \in ImportIds : AnyReject(i)

SpecAny == InitAny /\ [][NextAny]_vars

----------------------------------------------------------------------------
(* handleReset by itself, called in any state the page can be in *)

Messages == {"boom", "An unknown error occurred."}

InitReset ==
    /\ status \in UploadStatus
    /\ progress \in 0..100
    /\ error \in {Null} \cup {Some(m) : m \in Messages}
    /\ videoDetails \in {Null} \cup {Some(d) : d \in AnyDetails}
    /\ youtubeUrl \in UrlInputs
    /\ status = "IDLE" => progress = 0
    /\ status = "UPLOADING" => progress < 100
    /\ status \in {"PROCESSING", "SUCCESS"} => progress = 100
    /\ (error # Null) <=> (status = "ERROR")
    /\ (videoDetails # Null) <=> (status = "SUCCESS")
    /\ (youtubeUrl # <<>>) => (status = "IDLE")
    /\ mode = "file"
    /\ service = "mock"
    /\ imports = <<>>
    /\ event = Ev("init")
    /\ toProcessing = 0
    /\ hundredSeen = FALSE
    /\ editor = NoEditor
    /\ server = NoServer
    /\ gen = NoGen

NextReset == event.op = "init" /\ CallHandleReset

SpecReset == InitReset /\ [][NextReset]_vars

----------------------------------------------------------------------------
(* Transcripts and the highlight finders *)

\* Texts of segments: without a hook, with each hook, and near a hook
TextPlain == <<"o", "k">>
TextSpecial == <<"a", " ", "S", "p", "E", "c", "i", "A", "L">>
TextGameChanger == <<"g", "a", "m", "e", "-", "c", "h", "a", "n", "g", "e", "r">>
TextGameSpaced == <<"g", "a", "m", "e", " ", "c", "h", "a", "n", "g", "e", "r">>
TextImprovement == <<"i", "m", "p", "r", "o", "v", "e", "m", "e", "n", "t", "s">>
TextGorgeous == <<"G", "o", "r", "g", "e", "o", "u", "s", "!">>
Texts == {TextSpecial, TextGameChanger, TextGameSpaced, TextImprovement, TextGorgeous}

\* ids are `seg_${n}` in the mock transcript and whatever the model wrote in an AI one
IdStyles == {"seg", "s"}
SegmentId(style, n) == <<style, n>>

\* TranscriptSegment[] with the given texts
TranscriptOf(texts, style) ==
    [k \in 1..Len(texts) |->
        [id |-> SegmentId(style, k - 1), text |-> texts[k], start |-> k - 1, end |-> k]]

Transcripts ==
    {TranscriptOf(texts, style) :
        texts \in UNION {[1..n -> Texts] : n \in 0..MaxSegments}, style \in IdStyles}

Ids(transcript) == {transcript[k].id : k \in 1..Len(transcript)}

\* const potentialHooks = [...]
PotentialHooks ==
    << <<"s", "p", "e", "c", "i", "a", "l">>,
       <<"g", "a", "m", "e", "-", "c", "h", "a", "n", "g", "e", "r">>,
       <<"i", "m", "p", "r", "o", "v", "e", "m", "e", "n", "t">>,
       <<"g", "o", "r", "g", "e", "o", "u", "s">> >>

\* a variant of the test that compares the text as it is written
IsHookCased(segment) ==
    \E h \in 1..Len(PotentialHooks) : Includes(segment.text, PotentialHooks[h])

\* potentialHooks.some(hook => segment.text.toLowerCase().includes(hook))
IsHook(segment) ==
    \E h \in 1..Len(PotentialHooks) :
        Includes(ToLowerCase(segment.text), PotentialHooks[h])

\* the Set after transcript.forEach(... highlights.add(segment.id))
HookIds(transcript) ==
    {transcript[k].id : k \in {j \in 1..Len(transcript) : IsHook(transcript[j])}}

\* a variant of the fallback that adds the first segment, for two segments or more
FallbackIdsFirst(transcript, highlights) ==
    IF highlights = {} /\ Len(transcript) > 1 THEN {transcript[1].id} ELSE highlights

\* a variant of the fallback that writes the id instead of reading it
FallbackIdsWritten(transcript, highlights) ==
    IF highlights = {} /\ Len(transcript) > 2 THEN {SegmentId("seg", 1)} ELSE highlights

\* if (highlights.size === 0 && transcript.length > 2) highlights.add(transcript[1].id)
FallbackIds(transcript, highlights) ==
    IF highlights = {} /\ Len(transcript) > 2 THEN {transcript[2].id} ELSE highlights

\* the heuristic findHighlightsInTranscript: the ids of the array it returns
FindHighlightsInTranscript(transcript) == FallbackIds(transcript, HookIds(transcript))

\* a variant of the finder that takes the first segment off the array it is given
TranscriptAfterShift(transcript) ==
    IF Len(transcript) = 0 THEN transcript ELSE Tail(transcript)

\* the array the caller passed, after the heuristic finder ran: it only reads it
TranscriptAfterFind(transcript) == transcript

\* What the analysis behind POST /api/highlights/find can end with: a failure,
\* or ids taken from the transcript it was given
AnalysisFails == [fails |-> TRUE, ids |-> {}]
AnalysisOutcomes(transcript) ==
    {AnalysisFails} \cup {[fails |-> FALSE, ids |-> S] : S \in SUBSET Ids(transcript)}

HighlightsError(code, msg) ==
    [kind |-> "http", code |-> code, error |-> msg, highlightIds |-> {}]

\* POST /api/highlights/find
HighlightsFindHandler(transcript, analysis) ==
    IF Len(transcript) = 0
    THEN HighlightsError(400, "Transcript is missing or empty.")
    ELSE IF analysis.fails
         THEN HighlightsError(500, "Failed to analyze transcript for highlights.")
         ELSE [kind |-> "http", code |-> 200, error |-> "", highlightIds |-> analysis.ids]

\* Everything a fetch of highlights/find can end with
HighlightsFetchOutcomes(transcript) ==
    {[kind |-> "network", code |-> 0, error |-> "Failed to fetch", highlightIds |-> {}]}
        \cup {HighlightsFindHandler(transcript, a) : a \in AnalysisOutcomes(transcript)}

----------------------------------------------------------------------------
(* EditorView *)

Finders == {"heuristic", "backend"}

\* the Editor's own step: the upload page and the backend are not touched
EditorStep(next) ==
    /\ editor' = next
    /\ UNCHANGED <<page, mode, service, imports, event, toProcessing, hundredSeen, server, gen>>

\* where the Editor is once one of n outstanding finder calls has settled
PcAfter(n) == IF n > 1 THEN editor.pc ELSE "idle"

\* a variant of setHighlights that adds the ids to the ones it holds
HighlightsAdded(old, ids) == old \cup ids

\* setHighlights(new Set(highlightIds))
SetHighlights(old, ids) == ids

\* a variant of the catch block that empties the highlights
CatchHighlightsCleared(old) == {}

\* catch (error) { console.error(...) }: no setter is called
CatchHighlights(old) == old

\* the finder's promise resolved: setHighlights(new Set(highlightIds)); setIsFinding(false)
FinderResolved(ids, transcript) ==
    LET shown == SetHighlights(editor.highlights, ids)
    IN  EditorStep([editor EXCEPT
            !.transcript = transcript, !.highlights = shown, !.isFinding = FALSE,
            !.pc = PcAfter(editor.outstanding), !.outstanding = @ - 1,
            !.last = [op |-> "resolved", ids |-> ids, failed |-> FALSE,
                      dropped |-> ~(editor.highlights \subseteq shown)]])

\* the finder's promise rejected: catch (error) { console.error }; setIsFinding(false)
FinderRejected ==
    EditorStep([editor EXCEPT
        !.highlights = CatchHighlights(@), !.isFinding = FALSE,
        !.pc = PcAfter(editor.outstanding), !.outstanding = @ - 1,
        !.last = [op |-> "rejected", ids |-> {}, failed |-> TRUE, dropped |-> FALSE]])

\* a variant of the button that is never disabled
FindOfferedAlways == TRUE

\* the 'Find Hooks with AI' button, disabled={isFinding}
FindOffered == ~editor.isFinding

\* a click on 'Find Hooks with AI': handleFindHooks up to its await
HandleFindHooks ==
    /\ editor.pc # "unmounted"
    /\ FindOffered
    /\ EditorStep([editor EXCEPT !.isFinding = TRUE, !.outstanding = @ + 1,
                                 !.pc = IF editor.finder = "heuristic" THEN "delay" ELSE "fetch"])

\* the heuristic finder after await simulateDelay(2500)
HeuristicFinderReturns ==
    /\ editor.pc = "delay"
    /\ FinderResolved(FindHighlightsInTranscript(editor.transcript),
                      TranscriptAfterFind(editor.transcript))

\* the backend-backed finder from await fetch to its return or throw: fetch
\* rejects, or the response is not ok and its error is thrown, or highlightIds
\* is returned as received
BackendFinderSettles ==
    /\ editor.pc = "fetch"
    /\ \E resp \in HighlightsFetchOutcomes(editor.transcript) :
          IF resp.kind = "network" \/ ~ResponseOk(resp)
          THEN FinderRejected
          ELSE FinderResolved(resp.highlightIds, editor.transcript)

\* the Editor as it is rendered with the imported video's details
InitEditor ==
    /\ status = "SUCCESS"
    /\ progress = 100
    /\ error = Null
    /\ videoDetails = Some(MockYoutubeDetails)
    /\ youtubeUrl = <<>>
    /\ mode = "file"
    /\ service \in {"mock"}
    /\ imports = <<>>
    /\ event = Ev("init")
    /\ toProcessing = 0
    /\ hundredSeen = FALSE
    /\ server = NoServer
    /\ gen = NoGen
    /\ \E t \in Transcripts, f \in Finders :
          editor = [NoEditor EXCEPT !.transcript = t, !.finder = f, !.pc = "idle"]

NextEditor ==
    \/ HandleFindHooks
    \/ HeuristicFinderReturns
    \/ BackendFinderSettles

SpecEditor == InitEditor /\ [][NextEditor]_vars

----------------------------------------------------------------------------
(* The backend: multer, generateTranscriptWithAI and the two POST handlers *)

\* file.originalname of the uploads a client sends
NameMp4 == <<"a", ".", "b", ".", "m", "p", "4">>

\* What a POST to upload-file carries: no 'video' part, or a file
NoPart == [present |-> FALSE, name |-> <<>>]
UploadBodies == {NoPart, [present |-> TRUE, name |-> NameMp4]}

\* What a POST to import-youtube carries: a JSON object without url, or with one
UrlBodies == {Null} \cup {Some(u) : u \in {UrlEmpty, UrlNotYouTube, UrlGood}}

\* Math.round(Math.random() * 1E9), over a range cut down to two values
RandomSuffixes == {0, 1}

\* path.extname: from the last '.' on, nothing when there is none or it comes first
ExtName(name) ==
    LET dots == {k \in 1..Len(name) : name[k] = "."}
        last == IF dots = {} THEN 0 ELSE CHOOSE k \in dots : \A j \in dots : j <= k
    IN  IF last <= 1 THEN <<>> ELSE SubSeq(name, last, Len(name))

\* file.fieldname + '-' + Date.now() + '-' + Math.round(...) + path.extname(file.originalname)
Filename(fieldname, now, rand, originalname) ==
    <<fieldname, now, rand, ExtName(originalname)>>

\* What ai.models.generateContent can end with: it throws, or it returns text
\* that JSON.parse takes or refuses
AiOutcomes ==
    {[throws |-> TRUE, json |-> FALSE, value |-> <<>>],
     [throws |-> FALSE, json |-> FALSE, value |-> <<>>],
     [throws |-> FALSE, json |-> TRUE,
      value |-> TranscriptOf(<<TextPlain, TextSpecial>>, "seg")]}

\* the catch block of generateTranscriptWithAI
FallbackTranscript(videoName, duration) ==
    << [id |-> SegmentId("seg", 0), text |-> <<"fallback", videoName>>, start |-> 0,
        end |-> IF duration > 5 THEN 5 ELSE duration] >>

\* a variant without the try: what is thrown inside leaves the function
GenerateTranscriptUncaught(videoName, duration, ai) ==
    [throws |-> ai.throws \/ ~ai.json, transcript |-> ai.value]

\* generateTranscriptWithAI: whether it throws, and what it returns
GenerateTranscriptWithAI(videoName, duration, ai) ==
    [throws |-> FALSE,
     transcript |-> IF ai.throws \/ ~ai.json
                    THEN FallbackTranscript(videoName, duration)
                    ELSE ai.value]

\* What ytdl.getInfo can end with: it throws, or it returns videoDetails
\* videoDetails.lengthSeconds is a string of digits, "0" for a live stream
InfoThrows == [throws |-> TRUE, videoId |-> "", title |-> <<>>, lengthSeconds |-> <<>>, thumbnails |-> 0]
InfoOutcomes ==
    {InfoThrows} \cup
    {[throws |-> FALSE, videoId |-> "a", title |-> <<"t", "a", "l", "k">>,
      lengthSeconds |-> <<"3", "2", "0">>, thumbnails |-> n] : n \in {0, 3}} \cup
    {[throws |-> FALSE, videoId |-> "b", title |-> <<"l", "i", "v", "e">>,
      lengthSeconds |-> <<"0">>, thumbnails |-> 3]}

\* parseInt(s, 10) of a string of digits
ParseInt(s) ==
    LET digit(c) == CHOOSE n \in 0..9 :
                        c = <<"0", "1", "2", "3", "4", "5", "6", "7", "8", "9">>[n + 1]
        value[k \in 0..Len(s)] == IF k = 0 THEN 0 ELSE value[k - 1] * 10 + digit(s[k])
    IN  value[Len(s)]

\* res.status(code).json({ error })
JsonError(code, msg) ==
    [code |-> code, kind |-> "json", error |-> msg, details |-> Null, stack |-> FALSE]

\* res.status(200).json(videoDetails)
JsonDetails(d) ==
    [code |-> 200, kind |-> "json", error |-> "", details |-> Some(d), stack |-> FALSE]

\* Express's own answer to an error no route handled: 500 and an HTML page, with
\* the error's stack unless NODE_ENV is production
DefaultErrorAnswer(stack) ==
    [code |-> 500, kind |-> "html", error |-> "", details |-> Null, stack |-> stack]

\* a request as it arrives
NewRequest(endpoint, file, url) ==
    [endpoint |-> endpoint, file |-> file, url |-> url, pc |-> "received",
     filename |-> Null, id |-> Null, info |-> InfoThrows, calls |-> {},
     raised |-> "none", ai |-> "none", response |-> Null]

RequestIds == 1..MaxRequests

\* the backend's own step: the upload page and the Editor are not touched
ServerStep(next) ==
    /\ server' = next
    /\ UNCHANGED <<page, mode, service, imports, event, toProcessing, hundredSeen, editor, gen>>

\* a request goes on to its next await
Goes(i, req) == ServerStep([server EXCEPT !.requests[i] = req])

\* a request is answered
Answers(i, req, resp) == Goes(i, [req EXCEPT !.pc = "done", !.response = Some(resp)])

\* the error string of each endpoint's catch block
GenericError(endpoint) ==
    IF endpoint = "upload-file"
    THEN "Failed to process the uploaded file."
    ELSE "Failed to process YouTube URL. The video might be private or unavailable."

\* a client sends POST /api/videos/upload-file
ReceiveUpload ==
    /\ Len(server.requests) < MaxRequests
    /\ \E f \in UploadBodies :
          ServerStep([server EXCEPT
              !.requests = Append(@, NewRequest("upload-file", f, Null))])

\* a client sends POST /api/videos/import-youtube
ReceiveImport ==
    /\ Len(server.requests) < MaxRequests
    /\ \E u \in UrlBodies :
          ServerStep([server EXCEPT
              !.requests = Append(@, NewRequest("import-youtube", NoPart, u))])

\* Date.now() returns a later value from here on
Tick ==
    /\ server.now < MaxTime
    /\ ServerStep([server EXCEPT !.now = @ + 1])

\* upload.single('video'): without a 'video' part req.file stays undefined; with
\* one the storage names the file and writes it, or fails (size limit, disk)
\* and passes the error to next(), which no handler of the app takes
UploadSingle(i) ==
    /\ i <= Len(server.requests)
    /\ server.requests[i].pc = "received"
    /\ server.requests[i].endpoint = "upload-file"
    /\ LET req == server.requests[i]
       IN  IF ~req.file.present
           THEN Goes(i, [req EXCEPT !.pc = "handler"])
           ELSE \E rand \in RandomSuffixes, fails \in BOOLEAN, stack \in BOOLEAN :
                  LET fn == Filename("video", server.now, rand, req.file.name)
                  IN  IF fails
                      THEN Answers(i, [req EXCEPT !.raised = "middleware"],
                                   DefaultErrorAnswer(stack))
                      ELSE ServerStep([server EXCEPT
                              !.requests[i] = [req EXCEPT !.pc = "handler",
                                                          !.filename = Some(fn)],
                              !.disk = [f \in DOMAIN @ \cup {fn} |->
                                           IF f = fn THEN i ELSE @[f]]])

\* the upload-file handler up to await generateTranscriptWithAI
UploadFileRoute(i) ==
    /\ i <= Len(server.requests)
    /\ server.requests[i].pc = "handler"
    /\ LET req == server.requests[i]
       IN  IF req.filename = Null
           THEN Answers(i, req, JsonError(400, "No video file provided."))
           ELSE Goes(i, [req EXCEPT !.pc = "transcript",
                                    !.id = Some(<<"vid", server.now>>),
                                    !.calls = @ \cup {"transcript"}])

\* a variant of the test that only refuses a missing or empty url
UrlRejectedWhenEmpty(url) == url = Null \/ url[1] = <<>>

\* !url || !ytdl.validateURL(url)
UrlRejected(url) == url = Null \/ url[1] = <<>> \/ ~ValidateURL(url[1])

\* the import-youtube handler up to await ytdl.getInfo(url)
ImportYoutubeRoute(i) ==
    /\ i <= Len(server.requests)
    /\ server.requests[i].pc = "received"
    /\ server.requests[i].endpoint = "import-youtube"
    /\ LET req == server.requests[i]
       IN  IF UrlRejected(req.url)
           THEN Answers(i, req, JsonError(400, "Invalid or missing YouTube URL."))
           ELSE Goes(i, [req EXCEPT !.pc = "getInfo", !.calls = @ \cup {"getInfo"}])

\* the import-youtube handler from ytdl.getInfo's end to await generateTranscriptWithAI:
\* getInfo throws, or thumbnails[length - 1] is undefined and .url throws, or
\* the transcript is asked for
GetInfoSettles(i) ==
    /\ i <= Len(server.requests)
    /\ server.requests[i].pc = "getInfo"
    /\ LET req == server.requests[i]
       IN  \E info \in InfoOutcomes :
              IF info.throws \/ info.thumbnails = 0
              THEN Answers(i, [req EXCEPT !.raised = IF info.throws THEN "getInfo"
                                                     ELSE "thumbnail"],
                           JsonError(500, GenericError(req.endpoint)))
              ELSE Goes(i, [req EXCEPT !.pc = "transcript", !.info = info,
                                       !.id = Some(<<"yt", info.videoId>>),
                                       !.calls = @ \cup {"transcript"}])


\* a variant in which the import-youtube handler sets videoUrl too
DetailsOfWithUrl(req, transcript) ==
    [id |-> req.id[1],
     name |-> IF req.endpoint = "upload-file" THEN req.file.name ELSE req.info.title,
     duration |-> IF req.endpoint = "upload-file" THEN 245
                  ELSE ParseInt(req.info.lengthSeconds),
     transcript |-> transcript,
     source |-> IF req.endpoint = "upload-file" THEN "upload" ELSE "youtube",
     videoUrl |-> Some(<<"/uploads/", req.filename>>)]

\* the VideoDetails either handler builds once the transcript is there
DetailsOf(req, transcript) ==
    IF req.endpoint = "upload-file"
    THEN [id |-> req.id[1], name |-> req.file.name, duration |-> 245,
          transcript |-> transcript, source |-> "upload",
          videoUrl |-> Some(<<"/uploads/", req.filename[1]>>)]
    ELSE [id |-> req.id[1], name |-> req.info.title,
          duration |-> ParseInt(req.info.lengthSeconds), transcript |-> transcript,
          source |-> "youtube", videoUrl |-> Null]

\* either handler from generateTranscriptWithAI's end to its answer
TranscriptSettles(i) ==
    /\ i <= Len(server.requests)
    /\ server.requests[i].pc = "transcript"
    /\ LET req == server.requests[i]
           d == DetailsOf(req, <<>>)
       IN  \E ai \in AiOutcomes :
              LET g == GenerateTranscriptWithAI(d.name, d.duration, ai)
                  seen == [req EXCEPT !.ai = IF ai.throws THEN "throws"
                                             ELSE IF ai.json THEN "json" ELSE "text"]
              IN  IF g.throws
                  THEN Answers(i, [seen EXCEPT !.raised = "transcript"],
                               JsonError(500, GenericError(req.endpoint)))
                  ELSE Answers(i, seen, JsonDetails(DetailsOf(req, g.transcript)))

InitBackend ==
    /\ status = "IDLE"
    /\ progress = 0
    /\ error = Null
    /\ videoDetails = Null
    /\ youtubeUrl = <<>>
    /\ mode = "file"
    /\ service = "backend"
    /\ imports = <<>>
    /\ event = Ev("init")
    /\ toProcessing = 0
    /\ hundredSeen = FALSE
    /\ editor = NoEditor
    /\ server = NoServer
    /\ gen = NoGen

NextBackend ==
    \/ ReceiveUpload
    \/ ReceiveImport
    \/ Tick
    \/ \E i \in RequestIds : UploadSingle(i)
    \/ \E i \in RequestIds : UploadFileRoute(i)
    \/ \E i \in RequestIds : ImportYoutubeRoute(i)
    \/ \E i \in RequestIds : GetInfoSettles(i)
    \/ \E i \in RequestIds : TranscriptSettles(i)

SpecBackend == InitBackend /\ [][NextBackend]_vars

----------------------------------------------------------------------------
(* generateMockTranscript; times are in tenths of a second *)

\* sentence.length of the fifteen sentences
SentenceLengths == <<47, 52, 55, 32, 49, 62, 55, 58, 67, 51, 58, 50, 50, 58, 55>>

\* id < sentences.length in the frontend's copy, id < 50 in the backend's
SegmentCaps == {Len(SentenceLengths), 50}

\* The durations it is called with: every tenth up to 20 s, then every 2.5 s
Durations == {d \in -10..MaxDuration : d <= 200 \/ d % 25 = 0}

\* Math.max(3, sentence.length / 10)
TextDuration(length) == IF length > 30 THEN length ELSE 30

\* a variant of the pause that goes back half a second
NextTimeBack(currentTime, textDuration) == currentTime + textDuration - 5

\* currentTime += textDuration + 0.5
NextTime(currentTime, textDuration) == currentTime + textDuration + 5

\* generateMockTranscript's own step: nothing else is touched
GenStep(next) ==
    /\ gen' = next
    /\ UNCHANGED <<page, mode, service, imports, event, toProcessing, hundredSeen,
                   editor, server>>

\* one round of while (currentTime < duration && id < cap)
MockTranscriptPush ==
    /\ gen.pc = "loop"
    /\ gen.currentTime < gen.duration
    /\ gen.id < gen.cap
    /\ LET textDuration == TextDuration(SentenceLengths[(gen.id % Len(SentenceLengths)) + 1])
       IN  GenStep([gen EXCEPT
               !.transcript = Append(@, [id |-> SegmentId("seg", gen.id),
                                         text |-> gen.id % Len(SentenceLengths),
                                         start |-> gen.currentTime,
                                         end |-> gen.currentTime + textDuration]),
               !.id = @ + 1,
               !.currentTime = NextTime(@, textDuration)])

\* the loop test fails: return transcript
MockTranscriptReturn ==
    /\ gen.pc = "loop"
    /\ ~(gen.currentTime < gen.duration /\ gen.id < gen.cap)
    /\ GenStep([gen EXCEPT !.pc = "returned"])

InitTranscript ==
    /\ status = "IDLE"
    /\ progress = 0
    /\ error = Null
    /\ videoDetails = Null
    /\ youtubeUrl = <<>>
    /\ mode = "file"
    /\ service = "mock"
    /\ imports = <<>>
    /\ event = Ev("init")
    /\ toProcessing = 0
    /\ hundredSeen = FALSE
    /\ editor = NoEditor
    /\ server = NoServer
    /\ \E d \in Durations, c \in SegmentCaps :
          gen = [NoGen EXCEPT !.duration = d, !.cap = c, !.pc = "loop"]

NextTranscript == MockTranscriptPush \/ MockTranscriptReturn

SpecTranscript == InitTranscript /\ [][NextTranscript]_vars

----------------------------------------------------------------------------
(* Claims *)

Busy == status \in {"UPLOADING", "PROCESSING"}
Ended == status \in {"SUCCESS", "ERROR"}

\* the importer calls whose promise rejects in this step
RejectingNow(i) ==
    /\ i <= Len(imports)
    /\ imports[i].pc # "rejected"
    /\ imports'[i].pc = "rejected"

\* the importer calls whose promise resolves in this step
ResolvingNow(i) ==
    /\ i <= Len(imports)
    /\ imports[i].pc # "resolved"
    /\ imports'[i].pc = "resolved"

\* C1: handleReset, called in any of the five states, leaves status = IDLE,
\* progress = 0, error = null and videoDetails = null.
C1_ResetClears ==
    event.op = "reset" =>
        /\ status = "IDLE"
        /\ progress = 0
        /\ error = Null
        /\ videoDetails = Null

\* C1 witness: handleReset has run in PROCESSING, with progress at 100
C1_ResetInProcessing ==
    /\ event.op = "reset"
    /\ event.from = "PROCESSING"
    /\ status = "IDLE"
    /\ progress = 0

\* C2: whatever values an importer passes to onProgress during one import, the
\* transition UPLOADING -> PROCESSING is taken at most once, exactly once as soon
\* as 100 was delivered while UPLOADING, and a value below 100 delivered while
\* UPLOADING leaves the status UPLOADING.
C2_ProcessingOnce ==
    /\ [](toProcessing <= 1 /\ (hundredSeen => toProcessing = 1))
    /\ [][(status = "UPLOADING" /\ event' # event /\ event'.op = "progress")
            => IF event'.p < 100
               THEN status' = "UPLOADING" /\ toProcessing' = toProcessing
               ELSE status' = "PROCESSING" /\ toProcessing' = 1]_vars

\* C2 witness: 100 was delivered, the values were not in order (or 100 came
\* again), and the status is PROCESSING after one transition
C2_HundredAfterDisorder ==
    /\ status = "PROCESSING"
    /\ hundredSeen
    /\ toProcessing = 1
    /\ \E i \in InFlight : ~imports[i].ordered
    /\ event.op = "progress"
    /\ event.from = "PROCESSING"
    /\ event.p = 100

\* C3: SUCCESS is entered only from PROCESSING, in the step in which the
\* importer's promise resolves, with videoDetails the record it resolved with;
\* and a resolving promise always finds the page in PROCESSING.
C3_SuccessFromProcessing ==
    [][/\ (status' = "SUCCESS" /\ status # "SUCCESS") =>
            /\ status = "PROCESSING"
            /\ \E i \in ImportIds : ResolvingNow(i)
            /\ event'.op = "resolved"
            /\ videoDetails' = event'.details
            /\ videoDetails' # Null
       /\ \A i \in ImportIds : ResolvingNow(i) =>
            status = "PROCESSING" /\ status' = "SUCCESS"]_vars

\* C3 witness: a backend-backed import has resolved in PROCESSING
C3_ResolvedInProcessing ==
    /\ status = "SUCCESS"
    /\ event.op = "resolved"
    /\ event.from = "PROCESSING"
    /\ videoDetails = event.details
    /\ videoDetails[1].source = "youtube"

\* C4: when an importer's promise rejects while the status is UPLOADING or
\* PROCESSING, the status becomes ERROR, the error is the message of the Error
\* it rejected with (the error field of the backend's non-2xx response, for a
\* backend-backed importer that read one), and videoDetails stays null.
C4_RejectionShown ==
    [][\A i \in ImportIds : (RejectingNow(i) /\ Busy) =>
            /\ status' = "ERROR"
            /\ event'.op = "rejected"
            /\ event'.rejection # Null
            /\ event'.rejection[1].isError
            /\ error' = Some(event'.rejection[1].message)
            /\ videoDetails' = Null
            /\ imports[i].response # Null =>
                  error' = Some(imports[i].response[1].error)]_vars

\* C4 witness: the backend answered 400 to import-youtube and its error field is shown
C4_BackendErrorShown ==
    /\ status = "ERROR"
    /\ event.op = "rejected"
    /\ event.from = "UPLOADING"
    /\ error = Some("Invalid or missing YouTube URL.")
    /\ videoDetails = Null

C6_TerminalUntilReset ==
    [][Ended =>
        /\ imports' = imports
        /\ \/ status' = status /\ error' = error /\ videoDetails' = videoDetails
           \/ event'.op = "reset" /\ event'.from = status /\ status' = "IDLE"]_vars

\* C6 witness: the user has reset the page from ERROR
C6_ResetFromError ==
    /\ event.op = "reset"
    /\ event.from = "ERROR"
    /\ status = "IDLE"
    /\ Len(imports) = 1

\* C7: every import that is started ends in SUCCESS with a record or in ERROR
\* with a message.
C7_ImportEnds ==
    Busy ~> \/ status = "SUCCESS" /\ videoDetails # Null
            \/ status = "ERROR" /\ error # Null

\* C8: at most one importer call is unsettled at any time, and none is while the
\* page offers the start actions.
C8_OneInFlight ==
    /\ Cardinality(InFlight) <= 1
    /\ StartOffered => InFlight = {}
    /\ InFlight # {} <=> Busy

\* C8 witness: a second import is running after the first one has settled
C8_SecondImportAlone ==
    /\ Len(imports) = 2
    /\ InFlight = {2}
    /\ Busy

\* C9: a start with no file or with an empty URL changes nothing and calls no
\* importer; a start with a file or a non-empty URL, from IDLE, calls the
\* importer once and leads to UPLOADING.
C9_EmptySourceRefused ==
    [][(event' # event /\ event'.op \in {"startFile", "startUrl"}) =>
        /\ status = "IDLE"
        /\ IF (event'.op = "startFile" /\ ~event'.file.present)
              \/ (event'.op = "startUrl" /\ event'.url = <<>>)
           THEN UNCHANGED <<status, progress, error, videoDetails, youtubeUrl, imports>>
           ELSE /\ status' = "UPLOADING"
                /\ Len(imports') = Len(imports) + 1
                /\ error' = Null
                /\ videoDetails' = Null]_vars

\* C9 witness: handleFileUpload was called without a file after an earlier import
C9_RefusedAfterImport ==
    /\ event.op = "startFile"
    /\ ~event.file.present
    /\ status = "IDLE"
    /\ Len(imports) = 1
    /\ InFlight = {}

\* C10: every importer of the repository passes onProgress only values within
\* [0,100], in non-decreasing order, and the last one before it resolves is 100.
C10_ImporterProgress ==
    \A i \in 1..Len(imports) :
        /\ imports[i].ordered
        /\ imports[i].last \in {-1} \cup 0..100
        /\ imports[i].pc = "resolved" => imports[i].last = 100

\* C10 witness: the backend-backed uploadVideoFile has resolved after reporting 100
C10_BackendUploadResolved ==
    \E i \in 1..Len(imports) :
        /\ imports[i].pc = "resolved"
        /\ imports[i].kind = "file"
        /\ imports[i].impl = "backend"
        /\ imports[i].last = 100

\* the uploadVideoFile calls of the mock service that have not settled
MockFileCalls ==
    {i \in InFlight : imports[i].kind = "file" /\ imports[i].impl = "mock"}

\* the capital of a letter of the words looked for
CapitalOf(c) ==
    CASE c = "e" -> "E"
      [] c = "r" -> "R"
      [] c = "o" -> "O"
      [] c = "s" -> "S"
      [] c = "p" -> "P"
      [] c = "c" -> "C"
      [] c = "i" -> "I"
      [] c = "a" -> "A"
      [] c = "l" -> "L"
      [] c = "g" -> "G"
      [] OTHER -> c

\* name holds word somewhere, each letter in either case
HoldsWord(name, word) ==
    \E k \in 0..(Len(name) - Len(word)) :
        \A j \in 1..Len(word) : name[k + j] \in {word[j], CapitalOf(word[j])}

SimulatedServerError ==
    <<"s", "i", "m", "u", "l", "a", "t", "e", "d", " ",
      "s", "e", "r", "v", "e", "r", " ", "e", "r", "r", "o", "r">>

\* the mock uploadVideoFile settles in this step
MockFileSettles(i) ==
    /\ i \in MockFileCalls
    /\ Settled(imports'[i])

\* C11: with the mock importer an upload starts in IDLE, is UPLOADING while the
\* loop runs and PROCESSING during the last delay, and then ends: in ERROR with
\* a message containing 'simulated server error' when the file's name holds
\* 'error' in any mix of cases, in SUCCESS when it does not.
C11_MockUploadOutcome ==
    /\ [](\A i \in MockFileCalls :
            status = IF imports[i].pc = "mockProcessing" THEN "PROCESSING" ELSE "UPLOADING")
    /\ [][/\ (MockFileCalls' # {} /\ Len(imports') > Len(imports)) =>
                (status = "IDLE" /\ status' = "UPLOADING")
          /\ \A i \in ImportIds :
                MockFileSettles(i) =>
                    /\ status = "PROCESSING"
                    /\ IF HoldsWord(imports[i].file.name, ErrorWord)
                       THEN /\ status' = "ERROR"
                            /\ error' # Null
                            /\ Includes(Chars(error'[1]), SimulatedServerError)
                       ELSE status' = "SUCCESS"]_vars
    /\ ((MockFileCalls # {}) ~> (MockFileCalls = {} /\ Ended))

\* the mock rejected the upload of v-ErrOR out of PROCESSING
C11_MixedCaseNameFailed ==
    /\ status = "ERROR"
    /\ event.op = "rejected"
    /\ event.from = "PROCESSING"
    /\ service = "mock"
    /\ error = Some("Upload failed due to a simulated server error.")

\* the heuristic finder's promise has resolved and nothing was asked since
HeuristicAnswered ==
    /\ editor.finder = "heuristic"
    /\ editor.pc = "idle"
    /\ editor.last.op = "resolved"

HookKeywords ==
    { <<"s", "p", "e", "c", "i", "a", "l">>,
      <<"g", "a", "m", "e", "-", "c", "h", "a", "n", "g", "e", "r">>,
      <<"i", "m", "p", "r", "o", "v", "e", "m", "e", "n", "t">>,
      <<"g", "o", "r", "g", "e", "o", "u", "s">> }

\* the positions of the segments whose text holds a keyword, in any mix of cases
KeywordSegments(transcript) ==
    {k \in 1..Len(transcript) : \E w \in HookKeywords : HoldsWord(transcript[k].text, w)}

\* C13: the heuristic returns the id of every segment whose text holds a hook
\* keyword in any mix of cases and, when there is such a segment, the id of no
\* other segment.
C13_HooksHighlighted ==
    HeuristicAnswered =>
        LET t == editor.transcript
            hooks == KeywordSegments(t)
        IN  /\ \A k \in hooks : t[k].id \in editor.last.ids
            /\ hooks # {} =>
                  \A k \in (1..Len(t)) \ hooks : t[k].id \notin editor.last.ids

\* 'a SpEciAL' and 'Gorgeous!' were highlighted, 'game changer' between them was not
C13_MixedCaseHooksFound ==
    /\ HeuristicAnswered
    /\ Len(editor.transcript) = 3
    /\ editor.transcript[1].text = TextSpecial
    /\ editor.transcript[2].text = TextGameSpaced
    /\ editor.transcript[3].text = TextGorgeous
    /\ editor.highlights = {editor.transcript[1].id, editor.transcript[3].id}

\* C14: when no segment holds a hook keyword the heuristic returns the id of
\* the segment at index 1 alone if there are three segments or more, and
\* nothing if there are fewer.
C14_FallbackSecond ==
    (HeuristicAnswered /\ KeywordSegments(editor.transcript) = {}) =>
        editor.last.ids =
            IF Len(editor.transcript) >= 3 THEN {editor.transcript[2].id} ELSE {}

\* three segments without a keyword: the second one is the highlight
C14_SecondOfThree ==
    /\ HeuristicAnswered
    /\ Len(editor.transcript) = 3
    /\ KeywordSegments(editor.transcript) = {}
    /\ editor.highlights = {editor.transcript[2].id}

C16_FailureGivesNoIds ==
    (editor.finder = "backend" /\ editor.pc = "idle" /\ editor.last.failed) =>
        /\ editor.last.op = "resolved"
        /\ editor.last.ids = {}
        /\ editor.highlights = {}

Requests == {server.requests[i] : i \in 1..Len(server.requests)}

\* the request was answered 400 with an error text
Refused(req) ==
    /\ req.pc = "done"
    /\ req.response[1].code = 400
    /\ req.response[1].error # ""

\* C17: an import-youtube request whose url is missing, empty or not a YouTube
\* URL calls neither ytdl.getInfo nor the transcript generation and is answered
\* 400 with an error text; an upload-file request without a file calls no
\* transcript generation and is answered 400 with an error text.
C17_ValidationFirst ==
    \A req \in Requests :
        /\ (req.endpoint = "import-youtube" /\ (req.url = Null \/ req.url[1] # UrlGood)) =>
              /\ req.calls = {}
              /\ req.pc = "done" => Refused(req)
        /\ (req.endpoint = "upload-file" /\ ~req.file.present) =>
              /\ req.calls = {}
              /\ req.pc = "done" => Refused(req)

\* a URL that is not a YouTube URL and an upload without a file were both refused
C17_BothRefused ==
    /\ \E req \in Requests :
          req.endpoint = "import-youtube" /\ req.url = Some(UrlNotYouTube) /\ Refused(req)
    /\ \E req \in Requests :
          req.endpoint = "upload-file" /\ ~req.file.present /\ Refused(req)

\* C18: a request during which an exception was raised (in the upload
\* middleware, the metadata fetch, the thumbnail selection or out of the
\* transcript generation) is answered 500 with the JSON error of its endpoint's
\* catch block, and nothing of the exception is in the answer.
C18_ExceptionsCaught ==
    \A req \in Requests :
        (req.pc = "done" /\ req.raised # "none") =>
            /\ req.response[1].code = 500
            /\ req.response[1].kind = "json"
            /\ ~req.response[1].stack
            /\ req.response[1].error =
                  IF req.endpoint = "upload-file"
                  THEN "Failed to process the uploaded file."
                  ELSE "Failed to process YouTube URL. The video might be private or unavailable."

\* C19: a request whose model call threw, or returned text that is not JSON, is
\* answered 200 with a VideoDetails whose transcript is one segment, seg_0.
C19_TranscriptFailureAbsorbed ==
    \A req \in Requests :
        req.ai \in {"throws", "text"} =>
            /\ req.pc = "done"
            /\ req.response[1].code = 200
            /\ req.response[1].details # Null
            /\ Len(req.response[1].details[1].transcript) = 1
            /\ req.response[1].details[1].transcript[1].id = <<"seg", 0>>

\* an upload whose model call threw and an import whose model text was not
\* JSON were both answered 200
C19_BothEndpointsFellBack ==
    /\ \E req \in Requests :
          /\ req.endpoint = "upload-file"
          /\ req.ai = "throws"
          /\ req.response[1].code = 200
    /\ \E req \in Requests :
          /\ req.endpoint = "import-youtube"
          /\ req.ai = "text"
          /\ req.response[1].code = 200

\* C20: two uploads that were stored have different filenames, and the file
\* under an upload's filename is the one that upload wrote.
C20_DistinctFilenames ==
    \A i, j \in 1..Len(server.requests) :
        LET a == server.requests[i]
            b == server.requests[j]
        IN  (i # j /\ a.filename # Null /\ b.filename # Null) =>
                /\ a.filename # b.filename
                /\ server.disk[a.filename[1]] = i

\* the requests that were answered 200, with a VideoDetails
Imported == {req \in Requests : req.pc = "done" /\ req.response[1].code = 200}

\* C21: a VideoDetails returned by upload-file has source 'upload' and a
\* videoUrl, one returned by import-youtube has source 'youtube' and none; so
\* videoUrl is there exactly when source = 'upload'.
C21_VideoUrlIffUpload ==
    \A req \in Imported :
        LET d == req.response[1].details[1]
        IN  /\ d.source = IF req.endpoint = "upload-file" THEN "upload" ELSE "youtube"
            /\ (d.videoUrl # Null) <=> (d.source = "upload")

\* an upload and a YouTube import were both answered with their VideoDetails
C21_OneOfEach ==
    /\ \E req \in Imported : req.response[1].details[1].videoUrl # Null
    /\ \E req \in Imported : req.response[1].details[1].source = "youtube"

\* C22: any two requests that were answered with a VideoDetails carry
\* different ids.
C22_DistinctIds ==
    \A i, j \in 1..Len(server.requests) :
        (i # j /\ server.requests[i] \in Imported /\ server.requests[j] \in Imported) =>
            server.requests[i].response[1].details[1].id #
                server.requests[j].response[1].details[1].id

\* C23: the segments generateMockTranscript has built have pairwise distinct
\* ids, start at 0 or later and before the duration, end after they start,
\* start later than the one before, and end no later than the next one starts.
C23_MockTranscriptWellFormed ==
    LET t == gen.transcript
    IN  /\ \A k \in 1..Len(t) :
              /\ t[k].start >= 0
              /\ t[k].end > t[k].start
              /\ t[k].start < gen.duration
        /\ \A j, k \in 1..Len(t) :
              j < k =>
                  /\ t[j].id # t[k].id
                  /\ t[j].start < t[k].start
                  /\ k = j + 1 => t[j].end <= t[k].start

\* the backend's copy returned its fifty segments
C23_FiftySegments ==
    /\ gen.pc = "returned"
    /\ Len(gen.transcript) = 50
    /\ gen.currentTime < gen.duration

\* the importer calls whose fetch has been sent and has not settled
RequestOutstanding == {i \in InFlight : imports[i].pc \in {"realFetch", "ytFetch"}}

\* C24: while the request of a backend-backed importer is outstanding the page
\* is in PROCESSING, and 100 was the last progress value it was given.
C24_ProcessingWhileRequested ==
    \A i \in RequestOutstanding :
        /\ status = "PROCESSING"
        /\ imports[i].last = 100

\* a finder call settles in this step
FinderSettles == editor'.outstanding < editor.outstanding

\* C25: isFinding is true exactly while a finder call is outstanding, and there
\* is never more than one.
C25_IsFindingWhileOutstanding ==
    /\ editor.isFinding <=> editor.outstanding > 0
    /\ editor.outstanding <= 1

\* a request was rejected, and the next one is under way
C25_FindingAgainAfterFailure ==
    /\ editor.last.op = "rejected"
    /\ editor.isFinding
    /\ editor.outstanding = 1

\* C26: when a finder call resolves, the highlights are the ids it returned and
\* no others; no step of the Editor changes the transcript or the page's
\* videoDetails.
C26_HighlightsRecomputed ==
    [][/\ (FinderSettles /\ editor'.last.op = "resolved") =>
              editor'.highlights = editor'.last.ids
       /\ editor'.transcript = editor.transcript
       /\ videoDetails' = videoDetails]_vars

\* a call resolved without an id that was highlighted before it
C26_EarlierIdDropped ==
    /\ editor.last.op = "resolved"
    /\ editor.last.dropped
    /\ editor.highlights # {}
    /\ editor.outstanding = 0

\* C30: when a finder call fails, the highlights stay as they were, isFinding
\* is false again, and the page's status and videoDetails stay as they were.
C30_FailureSwallowed ==
    [][(FinderSettles /\ editor'.last.failed) =>
          /\ editor'.highlights = editor.highlights
          /\ ~editor'.isFinding
          /\ status' = status
          /\ videoDetails' = videoDetails]_vars

\* a call failed while the ids of an earlier call are highlighted
C30_HighlightsKeptAfterFailure ==
    /\ editor.last.op = "rejected"
    /\ editor.highlights # {}
    /\ ~editor.isFinding
    /\ status = "SUCCESS"

\* C27: the segment returned when the transcript generation failed starts at 0,
\* ends at the smaller of 5 and the duration, and ends after it starts.
C27_PlaceholderWellFormed ==
    \A req \in Imported :
        req.ai \in {"throws", "text"} =>
            LET d == req.response[1].details[1]
                seg == d.transcript[1]
            IN  /\ seg.start = 0
                /\ seg.end = IF d.duration < 5 THEN d.duration ELSE 5
                /\ seg.end > seg.start

\* C28: in SUCCESS videoDetails is not null, and in ERROR error is not null.
C28_ViewsHaveTheirData ==
    /\ status = "SUCCESS" => videoDetails # Null
    /\ status = "ERROR" => error # Null

\* the second import of the session ended in SUCCESS after the first ended in ERROR
C28_SuccessAfterError ==
    /\ Len(imports) = 2
    /\ imports[1].pc = "rejected"
    /\ imports[2].pc = "resolved"
    /\ status = "SUCCESS"
    /\ videoDetails # Null

\* C29: error is not null in ERROR only and videoDetails is not null in
\* SUCCESS only; so they are never both set, and both are null in IDLE,
\* UPLOADING and PROCESSING.
C29_DataOnlyInItsView ==
    /\ error # Null => status = "ERROR"
    /\ videoDetails # Null => status = "SUCCESS"
    /\ ~(error # Null /\ videoDetails # Null)
    /\ status \in {"IDLE", "UPLOADING", "PROCESSING"} => (error = Null /\ videoDetails = Null)

\* an import is under way after one that succeeded and was reset
C29_BusyAfterSuccess ==
    /\ Len(imports) = 2
    /\ imports[1].pc = "resolved"
    /\ status \in {"UPLOADING", "PROCESSING"}
    /\ videoDetails = Null

====
